---------------------------- MODULE Spec2Model ----------------------------
(***************************************************************************)
(* gee-data-fetcher: period parsing (parse_period), period generation      *)
(* (iter_periods / make_period over pendulum's interval range), the remote *)
(* task runner (run_task) and the export / download / clean loop of main.  *)
(*                                                                         *)
(* Four specifications share the variables below:                          *)
(*   SpecParse    parse_period applied to every token over Alphabet        *)
(*   SpecPeriods  the generator returned by iter_periods, stepped          *)
(*   SpecTask     one call of run_task against the imagery backend         *)
(*   Spec         one run of main against the two backends                 *)
(* The variables a specification does not use keep their idle value.       *)
(***************************************************************************)
EXTENDS Integers, Sequences, FiniteSets, Bags, TLC

VARIABLES
    \* ---- parse_period
    token,      \* the argument period_size: a sequence of characters
    parsed,     \* NotCalled, then what the call returned or raised
    \* ---- iter_periods
    gpc,        \* "call", "raised" (parse_period raised), "iter", "exhausted"
    start,      \* pendulum.parse(start)
    end,        \* pendulum.parse(end)
    sizeTok,    \* the argument period_size
    freqTok,    \* the argument period_frequency, or None
    rstart,     \* range(): the local start, the next value to yield
    ri,         \* range(): the local i
    yielded,    \* the intervals the generator has produced so far
    \* ---- main and run_task
    pc,           \* the position of main (or of run_task called on its own)
    err,          \* the error that ended the run, "" while there is none
    entry,        \* "main", or "run_task" when run_task is the entry point
    splited_aoi,  \* the flag --splited-aoi
    nGeoms,       \* the number of geometries of the AOI file
    indices,      \* --indices, split at the commas
    bands,        \* --bands, split at the commas
    count_band,   \* the flag --count-band
    period,       \* main's period, the interval being processed
    n,            \* main's n, the index of the AOI partition
    images,       \* the keys of main's dict images still to be iterated
    task,         \* the ee.batch.Task: its description and its state
    max_retry,    \* run_task's argument in the current call
    delay_time,   \* run_task's argument in the current call
    arg_max_retry,\* max_retry as the outermost run_task call received it
    starts,       \* task.start() invocations of the outermost run_task call
    slept,        \* the time.sleep(delay_time) calls of that call
    item,         \* the item of main's fetch loop, its calls so far
    found,        \* the items a search returned, still to be iterated
    \* ---- the backends
    faults,       \* errors the imagery backend has raised inside run_task
    orphans,      \* exports still RUNNING that the task no longer refers to
    items,        \* the files in the Drive folder "GEE", by title
    folder,       \* whether the Drive folder "GEE" exists
    \* ---- history
    remote,       \* the kinds of backend calls made so far
    submitted,    \* the job names passed to run_task, in order
    downloaded,   \* the titles download_file was called on
    seen          \* the periods empty_collection was asked about, and its answers

pvars == <<token, parsed>>
gvars == <<gpc, start, end, sizeTok, freqTok, rstart, ri, yielded>>
cfgvars == <<entry, splited_aoi, nGeoms, indices, bands, count_band>>
loopvars == <<period, n, images, seen>>
taskvars == <<task, max_retry, delay_time, arg_max_retry, starts, slept,
              faults, orphans>>
drivevars == <<item, found, items, folder, downloaded>>
rvars == <<pc, err, cfgvars, loopvars, taskvars, drivevars, remote,
           submitted>>
vars == <<pvars, gvars, rvars>>

-----------------------------------------------------------------------------
(* Characters and str methods used by parse_period *)

MaxTokenLen == 3

Digits == {"0", "1", "2"}
Alphabet == Digits \cup {"d", "D", "w", "M", "y", "x", "-"}

\* str.isdigit() on one character
CharIsDigit(c) == c \in Digits

\* int() of one digit character
DigitVal(c) == CASE c = "0" -> 0 [] c = "1" -> 1 [] c = "2" -> 2 [] OTHER -> 0

\* str.lower() on one character
Lower(c) == CASE c = "D" -> "d" [] c = "M" -> "m" [] OTHER -> c

\* str.isdigit() on a string: non-empty and every character a digit
IsDigitStr(s) == Len(s) > 0 /\ \A i \in 1..Len(s) : CharIsDigit(s[i])

\* int() of a digit string (leading zeros allowed), most significant first
RECURSIVE IntOf(_)
IntOf(s) == IF Len(s) = 0 THEN 0
            ELSE 10 * IntOf(SubSeq(s, 1, Len(s) - 1)) + DigitVal(s[Len(s)])

Last(s) == s[Len(s)]
ButLast(s) == SubSeq(s, 1, Len(s) - 1)

-----------------------------------------------------------------------------
(* parse_period_unit and parse_period *)

Raise(site) == [ok |-> FALSE, err |-> site]

parse_period_unit(u) ==
    CASE u = "d" -> [ok |-> TRUE, unit |-> "days"]
      [] u = "w" -> [ok |-> TRUE, unit |-> "weeks"]
      [] u = "m" -> [ok |-> TRUE, unit |-> "months"]
      [] u = "y" -> [ok |-> TRUE, unit |-> "years"]
      [] OTHER   -> Raise("InvalidUnit")

\* parse_period with the unit character taken as written (no .lower())
parse_period_case_sensitive(period_size) ==
    IF Len(period_size) < 2 /\ CharIsDigit(Last(period_size))
    THEN Raise("BareDigit")
    ELSE LET u == parse_period_unit(Last(period_size))
         IN  IF ~u.ok THEN u
             ELSE IF Len(period_size) = 1
                  THEN [ok |-> TRUE, size |-> 1, unit |-> u.unit]
             ELSE IF IsDigitStr(ButLast(period_size))
                  THEN [ok |-> TRUE, size |-> IntOf(ButLast(period_size)),
                        unit |-> u.unit]
             ELSE Raise("NotANumber")

\* The three raise sites are kept apart: "BareDigit" is the guard of a
\* one-character digit token ("... does not represent a valid period unit"),
\* "InvalidUnit" is parse_period_unit's, "NotANumber" is the prefix's
\* ("... is not a number").
parse_period(period_size) ==
    IF Len(period_size) < 2 /\ CharIsDigit(Last(period_size))
    THEN Raise("BareDigit")
    ELSE LET u == parse_period_unit(Lower(Last(period_size)))
         IN  IF ~u.ok THEN u
             ELSE IF Len(period_size) = 1
                  THEN [ok |-> TRUE, size |-> 1, unit |-> u.unit]
             ELSE IF IsDigitStr(ButLast(period_size))
                  THEN [ok |-> TRUE, size |-> IntOf(ButLast(period_size)),
                        unit |-> u.unit]
             ELSE Raise("NotANumber")

-----------------------------------------------------------------------------
(* SpecParse: parse_period on every token of 1..MaxTokenLen characters *)

RECURSIVE SeqsUpTo(_, _)
SeqsUpTo(S, len) ==
    IF len = 0 THEN {<<>>}
    ELSE LET shorter == SeqsUpTo(S, len - 1)
         IN  shorter \cup {Append(s, c) : s \in shorter, c \in S}

Tokens == SeqsUpTo(Alphabet, MaxTokenLen) \ {<<>>}

None == <<>>

-----------------------------------------------------------------------------
(* Calendar arithmetic as pendulum does it (UTC, proleptic Gregorian).     *)
(* An instant is [y, m, d, sec, us]: a date, the second of the day and the *)
(* microsecond of that second.                                             *)

IsLeap(y) == (y % 4 = 0 /\ y % 100 # 0) \/ y % 400 = 0

DaysInMonth(y, m) ==
    CASE m \in {4, 6, 9, 11} -> 30
      [] m = 2 -> IF IsLeap(y) THEN 29 ELSE 28
      [] OTHER -> 31

Min(a, b) == IF a <= b THEN a ELSE b

\* add(years=ny, months=nm): the month carries into the year and the day is
\* clamped to the length of the month reached
AddYearsMonths(t, ny, nm) ==
    LET total == (t.y + ny) * 12 + (t.m - 1) + nm
        yy == total \div 12
        mm == (total % 12) + 1
    IN  [t EXCEPT !.y = yy, !.m = mm, !.d = Min(t.d, DaysInMonth(yy, mm))]

NextDay(t) ==
    IF t.d < DaysInMonth(t.y, t.m) THEN [t EXCEPT !.d = t.d + 1]
    ELSE IF t.m < 12 THEN [t EXCEPT !.m = t.m + 1, !.d = 1]
    ELSE [t EXCEPT !.y = t.y + 1, !.m = 1, !.d = 1]

PrevDay(t) ==
    IF t.d > 1 THEN [t EXCEPT !.d = t.d - 1]
    ELSE IF t.m > 1 THEN [t EXCEPT !.m = t.m - 1,
                                   !.d = DaysInMonth(t.y, t.m - 1)]
    ELSE [t EXCEPT !.y = t.y - 1, !.m = 12, !.d = 31]

\* add(days=k), k of either sign; the time of day is kept
RECURSIVE AddDays(_, _)
AddDays(t, k) ==
    IF k = 0 THEN t
    ELSE IF k > 0
         THEN LET left == DaysInMonth(t.y, t.m) - t.d
              IN  IF k <= left THEN [t EXCEPT !.d = t.d + k]
                  ELSE AddDays(NextDay([t EXCEPT !.d = t.d + left]),
                               k - left - 1)
    ELSE IF -k < t.d THEN [t EXCEPT !.d = t.d + k]
    ELSE AddDays(PrevDay([t EXCEPT !.d = 1]), k + t.d)

\* DateTime.add(**{unit: k}) for the four units parse_period_unit returns
Add(t, unit, k) ==
    CASE unit = "days"   -> AddDays(t, k)
      [] unit = "weeks"  -> AddDays(t, 7 * k)
      [] unit = "months" -> AddYearsMonths(t, 0, k)
      [] unit = "years"  -> AddYearsMonths(t, k, 0)

\* DateTime.end_of("day")
EndOfDay(t) == [t EXCEPT !.sec = 86399, !.us = 999999]

Key(t) == <<t.y, t.m, t.d, t.sec, t.us>>

RECURSIVE LexLess(_, _)
LexLess(a, b) ==
    IF Len(a) = 0 THEN FALSE
    ELSE IF a[1] # b[1] THEN a[1] < b[1]
    ELSE LexLess(Tail(a), Tail(b))

Before(a, b) == LexLess(Key(a), Key(b))
NotAfter(a, b) == ~Before(b, a)

SameDay(a, b) == a.y = b.y /\ a.m = b.m /\ a.d = b.d

-----------------------------------------------------------------------------
(* get_period_end / make_period, and the generator of iter_periods *)

get_period_end(period_start, period_unit, period_size) ==
    EndOfDay(AddDays(Add(period_start, period_unit, period_size), -1))

\* DateTime - DateTime is the interval from the right operand to the left
\* one, not made absolute: its start is period_start whatever the order
make_period(period_start, period_unit, period_size) ==
    [start |-> period_start,
     end   |-> get_period_end(period_start, period_unit, period_size)]

\* period_frequency defaults to period_size
Frequency(size, freq) == IF freq = None THEN parse_period(size)
                         ELSE parse_period(freq)

\* pendulum.interval(start, end).range(unit, amount): the interval is not
\* absolute, so with start > end it is inverted and the range walks back
Inverted == Before(end, start)
RangeContinues == IF Inverted THEN NotAfter(end, rstart)
                  ELSE NotAfter(rstart, end)
RangeStep(unit) == Add(start, unit, IF Inverted THEN -ri ELSE ri)

-----------------------------------------------------------------------------
(* Idle values of the variables a specification leaves alone *)

Instant(y, m, d, sec) == [y |-> y, m |-> m, d |-> d, sec |-> sec, us |-> 0]

NoPeriod == [start |-> Instant(1, 1, 1, 0), end |-> Instant(1, 1, 1, 0)]
NoTask == [name |-> <<>>, state |-> "UNSUBMITTED"]
NoItem == [title |-> <<>>, downloads |-> 0]

NotCalled == [ok |-> FALSE, err |-> "NotCalled"]

IdleParse == token = <<>> /\ parsed = NotCalled

IdleGen ==
    /\ gpc = "idle"
    /\ start = Instant(1, 1, 1, 0) /\ end = Instant(1, 1, 1, 0)
    /\ sizeTok = None /\ freqTok = None
    /\ rstart = Instant(1, 1, 1, 0) /\ ri = 0
    /\ yielded = <<>>

IdleRun ==
    /\ pc = "idle" /\ err = "" /\ entry = "none"
    /\ splited_aoi = FALSE /\ nGeoms = 1
    /\ indices = <<>> /\ bands = <<>> /\ count_band = FALSE
    /\ period = NoPeriod /\ n = 0 /\ images = <<>>
    /\ task = NoTask /\ max_retry = 0 /\ delay_time = 0
    /\ arg_max_retry = 0 /\ starts = 0 /\ slept = <<>>
    /\ item = NoItem /\ found = <<>>
    /\ faults = 0 /\ orphans = EmptyBag /\ items = EmptyBag
    /\ folder = FALSE
    /\ remote = {} /\ submitted = <<>> /\ downloaded = <<>>
    /\ seen = <<>>

-----------------------------------------------------------------------------
(* SpecParse *)

InitParse == token \in Tokens /\ parsed = NotCalled /\ IdleGen /\ IdleRun

ParsePeriod ==
    /\ parsed = NotCalled
    /\ parsed' = parse_period(token)
    /\ UNCHANGED <<token, gvars, rvars>>

NextParse == ParsePeriod

SpecParse == InitParse /\ [][NextParse]_vars

-----------------------------------------------------------------------------
(* SpecPeriods: iter_periods is called, then its generator is consumed *)

MaxYield == 4

PeriodTokens == {<<"d">>, <<"2", "d">>, <<"w">>, <<"M">>, <<"2", "M">>,
                 <<"y">>, <<"0", "d">>, <<"0", "M">>, <<"x">>, <<"-", "d">>}

Starts == {Instant(2023, 1, 29, 0), Instant(2023, 1, 31, 43200),
           Instant(2024, 1, 31, 0), Instant(2024, 2, 29, 0),
           Instant(2023, 12, 30, 43200), Instant(2023, 3, 1, 0)}

\* end is start moved by some days: before it, equal to it, or after it
EndOffsets == {-3, 0, 1, 20, 65, 400}

InitPeriods ==
    /\ IdleParse /\ IdleRun
    /\ gpc = "call"
    /\ start \in Starts
    /\ end \in {AddDays(start, k) : k \in EndOffsets}
    /\ sizeTok \in PeriodTokens
    /\ freqTok \in PeriodTokens \cup {None}
    /\ rstart = start /\ ri = 0
    /\ yielded = <<>>

\* The body of iter_periods up to the return: both tokens are parsed before
\* the generator exists, so a bad token raises at the call
IterPeriods ==
    /\ gpc = "call"
    /\ LET size == parse_period(sizeTok)
           freq == Frequency(sizeTok, freqTok)
       IN  IF size.ok /\ freq.ok
           THEN gpc' = "iter" /\ ri' = freq.size
           ELSE gpc' = "raised" /\ ri' = ri
    /\ UNCHANGED <<start, end, sizeTok, freqTok, rstart, yielded, pvars,
                   rvars>>

\* One next() on the generator that yields: range() yields its start, the
\* generator expression turns it into an interval, range() moves on
GenNext ==
    /\ gpc = "iter"
    /\ Len(yielded) < MaxYield
    /\ RangeContinues
    /\ LET size == parse_period(sizeTok)
           freq == Frequency(sizeTok, freqTok)
       IN  /\ yielded' = Append(yielded,
                                make_period(rstart, size.unit, size.size))
           /\ rstart' = RangeStep(freq.unit)
           /\ ri' = ri + freq.size
    /\ UNCHANGED <<gpc, start, end, sizeTok, freqTok, pvars, rvars>>

\* The next() that finds the range finished: StopIteration
GenStop ==
    /\ gpc = "iter"
    /\ ~RangeContinues
    /\ gpc' = "exhausted"
    /\ UNCHANGED <<start, end, sizeTok, freqTok, rstart, ri, yielded, pvars,
                   rvars>>

NextPeriods == IterPeriods \/ GenNext \/ GenStop

SpecPeriods == InitPeriods /\ [][NextPeriods]_vars

-----------------------------------------------------------------------------
(* The two backends, as main and run_task see them.                        *)
(*                                                                         *)
(* Imagery backend: task.start() submits an export, which is RUNNING until *)
(* the backend ends it COMPLETED or FAILED; a COMPLETED export has written *)
(* its file, titled by the task's description, into the Drive folder       *)
(* "GEE", creating the folder when it is missing. task.status() reports    *)
(* the export of the latest start(). Every call may raise.                 *)
(* Storage backend: search(q) lists the items whose title contains q;      *)
(* deleting a folder deletes the files in it. Every call may raise.        *)

MaxFaults == 1
MaxGeoms == 1
MaxRetry == 3

DefaultMaxRetry == 10
DefaultDelayTime == 30

Running == (IF task.state = "RUNNING" THEN 1 ELSE 0) + BagCardinality(orphans)

One(x) == SetToBag({x})

\* the file of a COMPLETED export appears in the folder
Written(name) == /\ items' = items (+) One(name)
                 /\ folder' = TRUE

TaskCompletes ==
    /\ task.state = "RUNNING"
    /\ task' = [task EXCEPT !.state = "COMPLETED"]
    /\ Written(task.name)
    /\ UNCHANGED <<pvars, gvars, pc, err, cfgvars, loopvars, max_retry,
                   delay_time, arg_max_retry, starts, slept, faults, orphans,
                   item, found, downloaded, remote, submitted>>

TaskFails ==
    /\ task.state = "RUNNING"
    /\ task' = [task EXCEPT !.state = "FAILED"]
    /\ UNCHANGED <<pvars, gvars, pc, err, cfgvars, loopvars, max_retry,
                   delay_time, arg_max_retry, starts, slept, faults, orphans,
                   drivevars, remote, submitted>>

OrphanCompletes ==
    /\ \E name \in BagToSet(orphans) :
          /\ orphans' = orphans (-) One(name)
          /\ Written(name)
    /\ UNCHANGED <<pvars, gvars, pc, err, cfgvars, loopvars, task, max_retry,
                   delay_time, arg_max_retry, starts, slept, faults, item,
                   found, downloaded, remote, submitted>>

OrphanFails ==
    /\ \E name \in BagToSet(orphans) : orphans' = orphans (-) One(name)
    /\ UNCHANGED <<pvars, gvars, pc, err, cfgvars, loopvars, task, max_retry,
                   delay_time, arg_max_retry, starts, slept, faults,
                   drivevars, remote, submitted>>

Backend == TaskCompletes \/ TaskFails \/ OrphanCompletes \/ OrphanFails

-----------------------------------------------------------------------------
(* run_task. The recursive call is the last statement of the except block, *)
(* outside any try: a call that returns makes every caller return, an      *)
(* error it raises passes through every caller. The frames are therefore   *)
(* kept as the current max_retry and delay_time alone.                     *)

\* an error leaves main (or run_task when it is the entry point)
Abort(e) == pc' = "aborted" /\ err' = e

\* task.start(), the first statement of the try block
TaskStart ==
    /\ pc = "start"
    /\ starts' = starts + 1
    /\ remote' = remote \cup {"start"}
    /\ \/ /\ task' = [task EXCEPT !.state = "RUNNING"]
          /\ orphans' = IF task.state = "RUNNING"
                        THEN orphans (+) One(task.name) ELSE orphans
          /\ pc' = "poll"
          /\ UNCHANGED faults
       \/ /\ faults < MaxFaults
          /\ faults' = faults + 1
          /\ pc' = "handler"
          /\ UNCHANGED <<task, orphans>>
    /\ UNCHANGED <<pvars, gvars, err, cfgvars, loopvars, max_retry,
                   delay_time, arg_max_retry, slept, drivevars, submitted>>

\* the polling loop without the test of the FAILED state after it
TaskPoll_no_failed_test ==
    /\ pc = "poll"
    /\ \/ /\ faults < MaxFaults
          /\ faults' = faults + 1
          /\ pc' = "handler"
       \/ /\ task.state \in {"COMPLETED", "FAILED"}
          /\ pc' = IF entry = "main" THEN "search" ELSE "returned"
          /\ UNCHANGED faults
    /\ remote' = remote \cup {"status"}
    /\ UNCHANGED <<pvars, gvars, err, cfgvars, loopvars, task, max_retry,
                   delay_time, arg_max_retry, starts, slept, orphans,
                   drivevars, submitted>>

\* The polling loop and the test after it, from a status() that either
\* raises or returns a final state. A status() that returns another state
\* sleeps update_time and asks again: nothing changes, and no step is taken.
TaskPoll ==
    /\ pc = "poll"
    /\ \/ /\ faults < MaxFaults
          /\ faults' = faults + 1
          /\ pc' = "handler"
       \/ /\ task.state = "FAILED"
          /\ pc' = "handler"
          /\ UNCHANGED faults
       \/ /\ task.state = "COMPLETED"
          /\ pc' = IF entry = "main" THEN "search" ELSE "returned"
          /\ UNCHANGED faults
    /\ remote' = remote \cup {"status"}
    /\ UNCHANGED <<pvars, gvars, err, cfgvars, loopvars, task, max_retry,
                   delay_time, arg_max_retry, starts, slept, orphans,
                   drivevars, submitted>>

\* the except block, with the final error kept from stopping main: the
\* failed job is given up and the loop over the jobs goes on
TaskHandler_job_isolated ==
    /\ pc = "handler"
    /\ IF max_retry > 0
       THEN /\ slept' = Append(slept, delay_time)
            /\ delay_time' = delay_time * 2
            /\ max_retry' = max_retry - 1
            /\ pc' = "start"
            /\ UNCHANGED err
       ELSE /\ err' = "TaskFailed"
            /\ pc' = IF entry = "main" THEN "job" ELSE "aborted"
            /\ UNCHANGED <<slept, delay_time, max_retry>>
    /\ UNCHANGED <<pvars, gvars, cfgvars, loopvars, task, arg_max_retry,
                   starts, faults, orphans, drivevars, remote, submitted>>

\* the except block with the recursive call given delay_time unchanged
TaskHandler_fixed_delay ==
    /\ pc = "handler"
    /\ IF max_retry > 0
       THEN /\ slept' = Append(slept, delay_time)
            /\ max_retry' = max_retry - 1
            /\ pc' = "start"
            /\ UNCHANGED <<err, faults, delay_time>>
       ELSE /\ \/ Abort("TaskFailed") /\ UNCHANGED faults
               \/ /\ faults < MaxFaults
                  /\ faults' = faults + 1
                  /\ Abort("EEException")
            /\ UNCHANGED <<slept, delay_time, max_retry>>
    /\ UNCHANGED <<pvars, gvars, cfgvars, loopvars, task, arg_max_retry,
                   starts, orphans, drivevars, remote, submitted>>

\* the except block
TaskHandler ==
    /\ pc = "handler"
    /\ IF max_retry > 0
       THEN /\ slept' = Append(slept, delay_time)
            /\ delay_time' = delay_time * 2
            /\ max_retry' = max_retry - 1
            /\ pc' = "start"
            /\ UNCHANGED <<err, faults>>
       ELSE \* the message of the RuntimeError asks the backend once more
            /\ \/ Abort("TaskFailed") /\ UNCHANGED faults
               \/ /\ faults < MaxFaults
                  /\ faults' = faults + 1
                  /\ Abort("EEException")
            /\ UNCHANGED <<slept, delay_time, max_retry>>
    /\ UNCHANGED <<pvars, gvars, cfgvars, loopvars, task, arg_max_retry,
                   starts, orphans, drivevars, remote, submitted>>


RunTask == TaskStart \/ TaskPoll \/ TaskHandler

-----------------------------------------------------------------------------
(* SpecTask: run_task called on its own, on a task not yet started *)

Delays == {1, 30}

TaskName == <<"NDVI", <<2023, 6, 1>>, <<2023, 6, 30>>, <<>>>>

InitTask ==
    /\ IdleParse /\ IdleGen
    /\ pc = "start" /\ err = "" /\ entry = "run_task"
    /\ splited_aoi = FALSE /\ nGeoms = 1
    /\ indices = <<>> /\ bands = <<>> /\ count_band = FALSE
    /\ period = NoPeriod /\ n = 0 /\ images = <<>>
    /\ task = [name |-> TaskName, state |-> "UNSUBMITTED"]
    /\ max_retry \in 0..MaxRetry /\ arg_max_retry = max_retry
    /\ delay_time \in Delays
    /\ starts = 0 /\ slept = <<>>
    /\ item = NoItem /\ found = <<>>
    /\ faults = 0 /\ orphans = EmptyBag /\ items = EmptyBag
    /\ folder = FALSE
    /\ remote = {} /\ submitted = <<TaskName>> /\ downloaded = <<>>
    /\ seen = <<>>

NextTask ==
    \/ TaskStart \/ TaskPoll \/ TaskHandler
    \/ TaskCompletes \/ TaskFails \/ OrphanCompletes \/ OrphanFails

SpecTask == InitTask /\ [][NextTask]_vars

-----------------------------------------------------------------------------
(* main *)

RunStart == Instant(2023, 6, 1, 0)
RunEndOffsets == {30}

\* "NDVI,NDVI" asks for the same index twice
IndexArgs == {<<>>, <<"NDVI", "NDVI">>}
BandArgs == {<<>>, <<"B4">>}

\* period_size and period_frequency as given on the command line; a count
\* of 0 is left out here, the period loop would not end (see C7)
RunSizeTokens == {<<"M">>, <<"x">>, <<"1">>, <<"-", "M">>}
RunFreqTokens == {None, <<"x">>, <<"-", "d">>}

Init ==
    /\ IdleParse
    /\ gpc = "idle" /\ yielded = <<>>
    /\ start = RunStart
    /\ end \in {AddDays(RunStart, k) : k \in RunEndOffsets}
    /\ sizeTok = None /\ freqTok = None
    /\ rstart = RunStart /\ ri = 0
    /\ pc = "check_credentials" /\ err = "" /\ entry = "main"
    /\ splited_aoi \in BOOLEAN /\ nGeoms \in 1..MaxGeoms
    /\ indices \in IndexArgs /\ bands \in BandArgs /\ count_band \in BOOLEAN
    /\ period = NoPeriod /\ n = 0 /\ images = <<>>
    /\ task = NoTask /\ max_retry = 0 /\ delay_time = 0
    /\ arg_max_retry = 0 /\ starts = 0 /\ slept = <<>>
    /\ item = NoItem /\ found = <<>>
    /\ faults = 0 /\ orphans = EmptyBag /\ items = EmptyBag
    /\ folder = FALSE
    /\ remote = {} /\ submitted = <<>> /\ downloaded = <<>>
    /\ seen = <<>>

\* ee_credentials.exists()
CheckCredentials ==
    /\ pc = "check_credentials"
    /\ \E exists \in BOOLEAN :
          IF exists THEN pc' = "ee_init" /\ UNCHANGED err
          ELSE Abort("CredentialsNotFound")
    /\ UNCHANGED <<pvars, gvars, cfgvars, loopvars, taskvars, drivevars,
                   remote, submitted>>

\* ee_init followed by a first request to the backend
EeInit_with_request ==
    /\ pc = "ee_init"
    /\ remote' = remote \cup {"ee_init", "getInfo"}
    /\ \/ pc' = "drive_init" /\ UNCHANGED err
       \/ Abort("EEException")
    /\ UNCHANGED <<pvars, gvars, cfgvars, loopvars, taskvars, drivevars,
                   submitted>>

\* ee_helper.ee_init: ee.Initialize with the service account
EeInit ==
    /\ pc = "ee_init"
    /\ remote' = remote \cup {"ee_init"}
    /\ \/ pc' = "drive_init" /\ UNCHANGED err
       \/ Abort("EEException")
    /\ UNCHANGED <<pvars, gvars, cfgvars, loopvars, taskvars, drivevars,
                   submitted>>

\* GoogleDriveHelper(ee_credentials). The constructor uses the name
\* ServiceAccountCredentials, which drive_helper.py never imports: as the
\* file stands the raising branch is the one taken (NameError). The other
\* branch is the constructor with the import in place.
DriveInit ==
    /\ pc = "drive_init"
    /\ remote' = remote \cup {"drive_init"}
    /\ \/ pc' = "load_aoi" /\ UNCHANGED err
       \/ Abort("DriveInitError")
    /\ UNCHANGED <<pvars, gvars, cfgvars, loopvars, taskvars, drivevars,
                   submitted>>

\* aoi.exists(), then the file is read; the dates are parsed and the output
\* directory is made, all locally
LoadAoi ==
    /\ pc = "load_aoi"
    /\ \E exists \in BOOLEAN :
          IF exists THEN pc' = "parse_period" /\ UNCHANGED err
          ELSE Abort("AoiNotFound")
    /\ UNCHANGED <<pvars, gvars, cfgvars, loopvars, taskvars, drivevars,
                   remote, submitted>>

\* parse_period(period_size), then parse_period(period_frequency) unless it
\* is None, then the range() of the period loop is created
ParsePeriods ==
    /\ pc = "parse_period"
    /\ \E s \in RunSizeTokens, f \in RunFreqTokens :
          LET size == parse_period(s)
              freq == Frequency(s, f)
          IN  IF ~size.ok
              THEN Abort(size.err) /\ UNCHANGED <<sizeTok, freqTok, ri>>
              ELSE IF ~freq.ok
              THEN Abort(freq.err) /\ UNCHANGED <<sizeTok, freqTok, ri>>
              ELSE /\ sizeTok' = s /\ freqTok' = f
                   /\ ri' = freq.size
                   /\ pc' = "range" /\ UNCHANGED err
    /\ UNCHANGED <<pvars, gpc, start, end, rstart, yielded, cfgvars,
                   loopvars, taskvars, drivevars, remote, submitted>>

\* The head of the period loop: range() yields the next period_start and
\* make_period builds the interval, or the loop is over
NextPeriod ==
    /\ pc = "range"
    /\ IF RangeContinues
       THEN LET size == parse_period(sizeTok)
                freq == Frequency(sizeTok, freqTok)
            IN  /\ period' = make_period(rstart, size.unit, size.size)
                /\ rstart' = RangeStep(freq.unit)
                /\ ri' = ri + freq.size
                /\ pc' = "images"
       ELSE /\ pc' = "sweep"
            /\ UNCHANGED <<period, rstart, ri>>
    /\ UNCHANGED <<pvars, gpc, start, end, sizeTok, freqTok, yielded, err,
                   cfgvars, n, images, seen, taskvars, drivevars, remote,
                   submitted>>

\* get_cloudless_images and empty_collection (size().getInfo())
Images ==
    /\ pc = "images"
    /\ remote' = remote \cup {"getInfo"}
    /\ \/ Abort("EEException") /\ UNCHANGED <<n, seen>>
       \/ /\ seen' = Append(seen, [period |-> period, empty |-> TRUE])
          /\ pc' = "range" /\ UNCHANGED <<err, n>>
       \/ /\ seen' = Append(seen, [period |-> period, empty |-> FALSE])
          /\ pc' = "partition" /\ n' = 0 /\ UNCHANGED err
    /\ UNCHANGED <<pvars, gvars, cfgvars, period, images, taskvars,
                   drivevars, submitted>>

DateString(t) == <<t.y, t.m, t.d>>

\* f"{product}_{period_start_str}_{period_end_str}{aoi_suffix}"
Name(product, k) ==
    <<product, DateString(period.start), DateString(period.end),
      IF splited_aoi THEN <<k>> ELSE <<>> >>

\* the keys of a dict filled in this order: a key set again keeps its place
RECURSIVE Keys(_)
Keys(names) ==
    IF names = <<>> THEN <<>>
    ELSE LET before == Keys(ButLast(names))
         IN  IF \E i \in 1..Len(before) : before[i] = Last(names)
             THEN before ELSE Append(before, Last(names))

\* a variant that fills the dict from the bands before the indices
Products_bands_first ==
    bands \o indices \o (IF count_band THEN <<"COUNT">> ELSE <<>>)

\* the order the dict images is filled in: main.py fills it from
\* args.indices, then args.bands, then the count band
Products == indices \o bands \o (IF count_band THEN <<"COUNT">> ELSE <<>>)

NPartitions == IF splited_aoi THEN nGeoms ELSE 1

\* One turn of the partition loop up to the loop over images.items(): the
\* dict images is filled from the indices, the bands and the count band
Partition ==
    /\ pc = "partition"
    /\ IF n < NPartitions
       THEN /\ images' = Keys([i \in 1..Len(Products) |->
                                  Name(Products[i], n)])
            /\ pc' = "job"
       ELSE pc' = "range" /\ UNCHANGED images
    /\ UNCHANGED <<pvars, gvars, err, cfgvars, period, n, seen, taskvars,
                   drivevars, remote, submitted>>

\* The head of the loop over images.items(): export_to_drive (which asks
\* the backend for the projection) and the call of run_task with its
\* default update_time, delay_time and max_retry
Job ==
    /\ pc = "job"
    /\ IF images = <<>>
       THEN /\ n' = n + 1 /\ pc' = "partition"
            /\ UNCHANGED <<err, images, task, max_retry, delay_time,
                           arg_max_retry, starts, slept, remote, submitted>>
       ELSE /\ remote' = remote \cup {"getInfo"}
            /\ \/ /\ Abort("EEException")
                  /\ UNCHANGED <<images, task, max_retry, delay_time,
                                 arg_max_retry, starts, slept, submitted>>
               \/ /\ task' = [name |-> Head(images),
                              state |-> "UNSUBMITTED"]
                  /\ images' = Tail(images)
                  /\ submitted' = Append(submitted, Head(images))
                  /\ max_retry' = DefaultMaxRetry
                  /\ arg_max_retry' = DefaultMaxRetry
                  /\ delay_time' = DefaultDelayTime
                  /\ starts' = 0 /\ slept' = <<>>
                  /\ pc' = "start" /\ UNCHANGED err
            /\ UNCHANGED n
    /\ UNCHANGED <<pvars, gvars, cfgvars, period, seen, faults, orphans,
                   drivevars>>

\* drive_helper.search(query): the list is fetched at the call
Matching(name) == [i \in 1..CopiesIn(name, items) |-> name]

\* drive_helper.search(name) after run_task returned
Search ==
    /\ pc = "search"
    /\ remote' = remote \cup {"search"}
    /\ \/ Abort("SearchError") /\ UNCHANGED found
       \/ /\ found' = Matching(task.name)
          /\ pc' = "fetch" /\ UNCHANGED err
    /\ UNCHANGED <<pvars, gvars, cfgvars, loopvars, taskvars, item, items,
                   folder, downloaded, submitted>>

\* download_file wrapped in one retry
Download_with_retry ==
    /\ pc = "fetch"
    /\ IF found = <<>>
       THEN /\ pc' = "job"
            /\ UNCHANGED <<err, item, found, downloaded, remote>>
       ELSE /\ found' = Tail(found)
            /\ remote' = remote \cup {"download"}
            /\ \/ /\ item' = [title |-> Head(found), downloads |-> 1]
                  /\ downloaded' = Append(downloaded, Head(found))
                  /\ pc' = "delete" /\ UNCHANGED err
               \/ /\ item' = [title |-> Head(found), downloads |-> 2]
                  /\ downloaded' = downloaded \o <<Head(found), Head(found)>>
                  /\ \/ pc' = "delete" /\ UNCHANGED err
                     \/ Abort("DownloadError")
    /\ UNCHANGED <<pvars, gvars, cfgvars, loopvars, taskvars, items, folder,
                   submitted>>

\* delete_file moved into a finally clause around download_file
Download_delete_in_finally ==
    /\ pc = "fetch"
    /\ IF found = <<>>
       THEN /\ pc' = "job"
            /\ UNCHANGED <<err, item, found, downloaded, remote, items>>
       ELSE /\ item' = [title |-> Head(found), downloads |-> 1]
            /\ found' = Tail(found)
            /\ downloaded' = Append(downloaded, Head(found))
            /\ \/ /\ remote' = remote \cup {"download"}
                  /\ pc' = "delete" /\ UNCHANGED <<err, items>>
               \/ /\ remote' = remote \cup {"download", "delete"}
                  /\ items' = items (-) One(Head(found))
                  /\ Abort("DownloadError")
    /\ UNCHANGED <<pvars, gvars, cfgvars, loopvars, taskvars, folder,
                   submitted>>

\* the head of the loop over the items found, and download_file
Download ==
    /\ pc = "fetch"
    /\ IF found = <<>>
       THEN /\ pc' = "job"
            /\ UNCHANGED <<err, item, found, downloaded, remote>>
       ELSE /\ item' = [title |-> Head(found), downloads |-> 1]
            /\ found' = Tail(found)
            /\ downloaded' = Append(downloaded, Head(found))
            /\ remote' = remote \cup {"download"}
            /\ \/ pc' = "delete" /\ UNCHANGED err
               \/ Abort("DownloadError")
    /\ UNCHANGED <<pvars, gvars, cfgvars, loopvars, taskvars, items, folder,
                   submitted>>

\* delete_file(item) in the fetch loop
Delete ==
    /\ pc = "delete"
    /\ remote' = remote \cup {"delete"}
    /\ \/ /\ items' = items (-) One(item.title)
          /\ pc' = "fetch" /\ UNCHANGED err
       \/ Abort("DeleteError") /\ UNCHANGED items
    /\ UNCHANGED <<pvars, gvars, cfgvars, loopvars, taskvars, item, found,
                   folder, downloaded, submitted>>

\* The final sweep: search("GEE") finds what has GEE in its title, which
\* of the things the exports made is the folder; delete_file on the folder
\* takes its files with it
Sweep ==
    /\ pc = "sweep"
    /\ remote' = remote \cup {"search"}
    /\ \/ Abort("SearchError") /\ UNCHANGED <<items, folder>>
       \/ /\ ~folder
          /\ pc' = "done" /\ UNCHANGED <<err, items, folder>>
       \/ /\ folder
          /\ \/ /\ folder' = FALSE /\ items' = EmptyBag
                /\ pc' = "done" /\ UNCHANGED err
             \/ Abort("DeleteError") /\ UNCHANGED <<items, folder>>
    /\ UNCHANGED <<pvars, gvars, cfgvars, loopvars, taskvars, item, found,
                   downloaded, submitted>>

Next ==
    \/ CheckCredentials \/ EeInit \/ DriveInit \/ LoadAoi \/ ParsePeriods
    \/ NextPeriod \/ Images \/ Partition \/ Job
    \/ TaskStart \/ TaskPoll \/ TaskHandler
    \/ Search \/ Download \/ Delete \/ Sweep
    \/ TaskCompletes \/ TaskFails \/ OrphanCompletes \/ OrphanFails

Spec == Init /\ [][Next]_vars

-----------------------------------------------------------------------------
(* Claims about parse_period (SpecParse) *)

UnitLetters == {"d", "D", "w", "W", "m", "M", "y", "Y"}

UnitName(c) == CASE c \in {"d", "D"} -> "days"
                 [] c \in {"w", "W"} -> "weeks"
                 [] c \in {"m", "M"} -> "months"
                 [] c \in {"y", "Y"} -> "years"

DecimalDigit == [c \in {"0", "1", "2", "3", "4", "5", "6", "7", "8", "9"} |->
                   CASE c = "0" -> 0 [] c = "1" -> 1 [] c = "2" -> 2
                     [] c = "3" -> 3 [] c = "4" -> 4 [] c = "5" -> 5
                     [] c = "6" -> 6 [] c = "7" -> 7 [] c = "8" -> 8
                     [] c = "9" -> 9]

RECURSIVE Horner(_, _)
Horner(s, acc) == IF s = <<>> THEN acc
                  ELSE Horner(Tail(s), 10 * acc + DecimalDigit[Head(s)])

\* <digits?><unit-char>
WellFormed(t) ==
    /\ Last(t) \in UnitLetters
    /\ \A i \in 1..(Len(t) - 1) : t[i] \in DOMAIN DecimalDigit

\* C10: parse_period returns (count, unit) exactly for the tokens made of an
\* optional run of digits and one of d/w/m/y in either case; the count is 1
\* without digits and the digits' value otherwise, the unit follows the
\* fixed mapping; any other token fails, as an invalid unit when its last
\* character is no unit letter (a bare digit included) and as an invalid
\* period format when the unit is valid and the prefix is not a number.
C10_ParsePeriodExact ==
    parsed # NotCalled =>
        /\ parsed.ok <=> WellFormed(token)
        /\ parsed.ok =>
              /\ parsed.size = IF Len(token) = 1 THEN 1
                               ELSE Horner(ButLast(token), 0)
              /\ parsed.unit = UnitName(Last(token))
        /\ ~parsed.ok =>
              IF Last(token) \in UnitLetters
              THEN parsed.err = "NotANumber"
              ELSE parsed.err \in {"BareDigit", "InvalidUnit"}

\* an upper-case unit with a two-digit count has been parsed
C10_Witness ==
    /\ token = <<"1", "2", "M">>
    /\ parsed = [ok |-> TRUE, size |-> 12, unit |-> "months"]

-----------------------------------------------------------------------------
(* Claims about iter_periods (SpecPeriods) *)

Generated == gpc \in {"iter", "exhausted"}

\* C7: with start <= end and accepted tokens, the period starts begin at
\* start, increase strictly, are all <= end, and the generator stops exactly
\* when the next start would exceed end.
C7_StartsStrictlyIncreasing ==
    (Generated /\ NotAfter(start, end)) =>
        /\ Len(yielded) >= 1 => yielded[1].start = start
        /\ \A i \in 1..(Len(yielded) - 1) :
              Before(yielded[i].start, yielded[i + 1].start)
        /\ \A i \in 1..Len(yielded) : NotAfter(yielded[i].start, end)
        /\ gpc = "exhausted" => Before(end, rstart)

\* C8: every interval emitted has end >= start, its end being the last
\* instant of the day (start + size units - 1 day). Stated for the ranges
\* that walk forward (start <= end), where it already fails.
C8_EndNotBeforeStart ==
    (Generated /\ NotAfter(start, end)) =>
        \A i \in 1..Len(yielded) :
            /\ NotAfter(yielded[i].start, yielded[i].end)
            /\ yielded[i].end.sec = 86399 /\ yielded[i].end.us = 999999
            /\ SameDay(NextDay(yielded[i].end),
                       Add(yielded[i].start, parse_period(sizeTok).unit,
                           parse_period(sizeTok).size))

\* C9: without period_frequency the intervals are back to back: each one
\* ends on the calendar day just before the day the next one starts. Stated
\* for the ranges that walk forward (start <= end).
C9_BackToBack ==
    (Generated /\ NotAfter(start, end) /\ freqTok = None) =>
        \A i \in 1..(Len(yielded) - 1) :
            SameDay(NextDay(yielded[i].end), yielded[i + 1].start)

-----------------------------------------------------------------------------
(* Claims about run_task (SpecTask) *)

Ended == pc \in {"done", "aborted", "returned"}

\* C1: with max_retry = N and N+1 failed attempts, task.start is invoked
\* exactly N+1 times and run_task ends with the task-failed error; when an
\* attempt within the budget is the first to reach COMPLETED, run_task
\* returns after exactly that many starts. (Len(slept) is the number of
\* failed attempts that were retried.)
C1_RetryPolicy ==
    (entry = "run_task" /\ Ended) =>
        /\ pc = "aborted" =>
              /\ starts = arg_max_retry + 1
              /\ err = "TaskFailed"
        /\ pc = "returned" =>
              /\ starts = Len(slept) + 1
              /\ starts <= arg_max_retry + 1
              /\ task.state = "COMPLETED"

-----------------------------------------------------------------------------
(* Claims about main (Spec) *)

Occurs(x, seq) == \E i \in 1..Len(seq) : seq[i] = x

\* C2: once run_task has raised its task-failed error for a job, the run
\* is over: main is stopped, no job is submitted and no task started
\* afterwards, nothing is downloaded afterwards, and the failed job has not
\* been downloaded.
C2_TaskFailedAbortsRun ==
    [][ /\ err' = "TaskFailed" =>
              /\ pc' = "aborted"
              /\ ~Occurs(task'.name, downloaded')
        /\ err = "TaskFailed" =>
              UNCHANGED <<pc, err, submitted, starts, downloaded, found>>
      ]_vars

\* a job has failed for good while another job of its partition was waiting
C2_Witness ==
    /\ entry = "main" /\ pc = "aborted" /\ err = "TaskFailed"
    /\ starts = DefaultMaxRetry + 1
    /\ images # <<>>

\* C3: when a run has ended, normally or by an error of run_task,
\* download_file or delete_file, no file its exports created is left in the
\* storage backend.
C3_NothingLeftInStorage ==
    (entry = "main" /\ Ended
       /\ err \in {"", "TaskFailed", "DownloadError", "DeleteError"}
       /\ submitted # <<>>) =>
        items = EmptyBag

\* C4: at most one export of the run is RUNNING on the imagery backend.
C4_OneRunningExport == Running <= 1

ConfigErrors == {"CredentialsNotFound", "AoiNotFound", "BareDigit",
                 "InvalidUnit", "NotANumber"}

\* C6 as claimed: every configuration error is raised before the first call
\* to either backend, their initialisation included.
C6_ConfigErrorsBeforeRemote ==
    err \in ConfigErrors => remote = {}

\* C6 as amended: a missing credentials file is raised before any backend
\* call; a missing AOI file or a bad period token is raised after the two
\* backends were initialised and before any other call to them.
C6_ConfigErrorsAfterInitOnly ==
    /\ err = "CredentialsNotFound" => remote = {}
    /\ err \in ConfigErrors \ {"CredentialsNotFound"} =>
          remote = {"ee_init", "drive_init"}

\* a bad period token has been reported after both initialisations
C6_Witness ==
    /\ pc = "aborted" /\ err = "NotANumber"
    /\ remote = {"ee_init", "drive_init"}


(***************************************************************************)
(* C11: the jobs passed to run_task                                        *)
(***************************************************************************)
RECURSIVE Flatten(_)
Flatten(seqs) ==
    IF seqs = <<>> THEN <<>> ELSE Head(seqs) \o Flatten(Tail(seqs))

IsPrefix(s, t) == Len(s) <= Len(t) /\ SubSeq(t, 1, Len(s)) = s

\* the products asked for on the command line, and the same list with
\* every product kept only where it is first asked for
Requested == indices \o bands \o (IF count_band THEN <<"COUNT">> ELSE <<>>)

RECURSIVE Distinct(_)
Distinct(seq) ==
    IF seq = <<>> THEN <<>>
    ELSE <<Head(seq)>>
         \o Distinct(SelectSeq(Tail(seq), LAMBDA x : x # Head(seq)))

JobName(product, p, k) ==
    <<product, <<p.start.y, p.start.m, p.start.d>>,
      <<p.end.y, p.end.m, p.end.d>>, IF splited_aoi THEN <<k>> ELSE <<>> >>

\* the jobs of period p: partitions in declaration order and, within a
\* partition, the products in the order of the list
JobsOf(p, products) ==
    Flatten([k \in 1..NPartitions |->
                [i \in 1..Len(products) |-> JobName(products[i], p, k - 1)]])

FewerCopies(name) == CopiesIn(name, items') < CopiesIn(name, items)

\* C12: in the fetch step of a job delete_file is called on an item only
\* after download_file returned without error for that same item, and it
\* is then always called; when download_file raises for an item the run
\* ends and the fetch step deletes nothing, neither then nor later.
C12_DeleteOnlyAfterDownload ==
    [][ /\ (pc # "delete" /\ pc' = "delete") =>
              /\ pc = "fetch" /\ found # <<>>
              /\ downloaded' = Append(downloaded, Head(found))
              /\ item'.title = Head(found)
              /\ err' = ""
        /\ (pc = "fetch" /\ downloaded' # downloaded) =>
              IF err' = ""
              THEN pc' = "delete" /\ item'.title = Last(downloaded')
              ELSE /\ pc' = "aborted" /\ err' = "DownloadError"
                   /\ items' = items /\ "delete" \notin remote' \ remote
        /\ (pc = "delete" /\ pc' # "delete") =>
              /\ "delete" \in remote'
              /\ err' = "" =>
                    pc' = "fetch" /\ items' = items (-) One(item.title)
        /\ \A name \in BagToSet(items) :
              FewerCopies(name) =>
                    \/ pc = "delete" /\ name = item.title
                    \/ pc = "sweep"
        /\ err = "DownloadError" =>
              \A name \in BagToSet(items) : ~FewerCopies(name)
      ]_vars

\* delete_file has removed the file that was just downloaded
C12_Witness ==
    /\ entry = "main" /\ pc = "fetch"
    /\ item # NoItem /\ item.title = task.name
    /\ downloaded # <<>> /\ Last(downloaded) = item.title
    /\ "delete" \in remote
    /\ ~BagIn(item.title, items)

(***************************************************************************)
(* C13: the waits of run_task                                              *)
(***************************************************************************)
RECURSIVE Pow2(_)
Pow2(k) == IF k = 0 THEN 1 ELSE 2 * Pow2(k - 1)

\* C13: in run_task called with delay_time = d and max_retry = m, the wait
\* before the k-th retry is d * 2^(k-1), every retry is preceded by one
\* wait and takes one off the retry budget, there are at most m retries,
\* and nothing is waited between the last failed attempt and the error
\* that ends the call.  (d is known from the current delay: no two delays
\* of Delays differ by a power of two.)
C13_ExponentialBackoff ==
    entry = "run_task" =>
        /\ \E d \in Delays :
              /\ delay_time = d * Pow2(Len(slept))
              /\ \A k \in 1..Len(slept) : slept[k] = d * Pow2(k - 1)
        /\ max_retry = arg_max_retry - Len(slept)
        /\ Len(slept) <= arg_max_retry
        /\ starts = Len(slept) + (IF pc = "start" THEN 0 ELSE 1)
        /\ pc = "aborted" => Len(slept) = arg_max_retry

\* a call with three retries that all failed
C13_Witness ==
    /\ entry = "run_task" /\ pc = "aborted"
    /\ arg_max_retry = 3 /\ starts = 4
    /\ slept = <<30, 60, 120>>

(***************************************************************************)
(* C14: run_task returns only on COMPLETED                                 *)
(***************************************************************************)
\* run_task has returned to main (or to its caller)
AfterRunTask == {"search", "fetch", "delete", "returned"}

\* C14: run_task returns normally only from an attempt whose start() did
\* not raise and whose last status was COMPLETED; an attempt that saw
\* FAILED or raised goes to the except block, which retries or raises and
\* never returns; so main searches and downloads for a job only while that
\* job's task is COMPLETED.
C14_ReturnsOnlyOnCompleted ==
    [][ /\ (pc \notin AfterRunTask /\ pc' \in AfterRunTask) =>
              /\ pc = "poll" /\ starts >= 1
              /\ task.state = "COMPLETED" /\ task' = task
              /\ "status" \in remote' /\ err' = ""
        /\ (pc = "poll" /\ pc' # "poll" /\ task.state # "COMPLETED") =>
              pc' = "handler"
        /\ pc = "handler" => pc' \in {"handler", "start", "aborted"}
        /\ pc' \in AfterRunTask => task'.state = "COMPLETED"
        /\ downloaded' # downloaded =>
              /\ task.state = "COMPLETED"
              /\ Last(downloaded') = task.name
              /\ Last(submitted) = task.name
      ]_vars

\* the file of a job is downloaded after an attempt failed and the retry
\* ended COMPLETED
C14_Witness ==
    /\ entry = "main" /\ pc = "delete"
    /\ task.state = "COMPLETED" /\ starts = 2 /\ slept = <<30>>
    /\ item # NoItem /\ item.title = task.name
=============================================================================
